---- MODULE Spec2Model ----
(***************************************************************************)
(* Model of src/agent.py: the GitHubMonitorAgent of the workflow monitor.  *)
(*                                                                         *)
(* Text is modelled as a sequence of one-character strings, so that the    *)
(* regular-expression searches, lower(), strip(), splitlines(), replace()  *)
(* and the substring tests of the source are computed character by         *)
(* character.  Three specifications are defined:                           *)
(*   Spec        - one run of monitor() against the remote API and the     *)
(*                 text generator, one step per collaborator call;         *)
(*   SpecExtract - extract_all_errors applied to a bounded set of archives;*)
(*   SpecAdvise  - ai_fix applied to a bounded set of error texts and      *)
(*                 generator behaviours.                                   *)
(***************************************************************************)
EXTENDS Integers, Sequences, FiniteSets, TLC

VARIABLES pc, workflows, wi, passed, failed, all_results, run, logs,
          errors, errors_info, exception, calls, summary, input, output

vars ==
  <<pc, workflows, wi, passed, failed, all_results, run, logs,
    errors, errors_info, exception, calls, summary, input, output>>

(***************************************************************************)
(* Bounds of the model.                                                    *)
(***************************************************************************)
MaxWorkflows == 2

MaxLines == 2

MaxGenChunks == 2

(***************************************************************************)
(* Text primitives of Python used by the source.                           *)
(***************************************************************************)
UpperLetters ==
  <<"A","B","C","D","E","F","G","H","I","J","K","L","M",
    "N","O","P","Q","R","S","T","U","V","W","X","Y","Z">>

LowerLetters ==
  <<"a","b","c","d","e","f","g","h","i","j","k","l","m",
    "n","o","p","q","r","s","t","u","v","w","x","y","z">>

Digits ==
  {"0","1","2","3","4","5","6","7","8","9"}

Whitespace ==
  {" ", "\t", "\n", "\r", "\f"}

\* A byte that is not valid text; bytes.decode(errors="ignore") drops it.
InvalidByte ==
  "<ff>"

\* the upper-case letters and their lower-case forms
LowerMap ==
  [c \in {UpperLetters[k] : k \in 1..26} |->
     LowerLetters[CHOOSE k \in 1..26 : UpperLetters[k] = c]]

lower_char(c) ==
  IF c \in DOMAIN LowerMap THEN LowerMap[c] ELSE c

\* str.lower()
lower(s) ==
  [k \in 1..Len(s) |-> lower_char(s[k])]

MatchAt(s, p, k) ==
  /\ k + Len(p) - 1 <= Len(s)
  /\ \A j \in 1..Len(p) : s[k + j - 1] = p[j]

\* the substring test  p in s
Contains(s, p) ==
  \E k \in 1..(Len(s) - Len(p) + 1) : MatchAt(s, p, k)

\* re.search(r"(p1|p2|...)", line, re.IGNORECASE) for literal alternatives
search_ignorecase(patterns, line) ==
  LET folded == lower(line)
  IN  \E p \in patterns : Contains(folded, lower(p))

\* str.strip()
strip(s) ==
  LET keep == {k \in 1..Len(s) : s[k] \notin Whitespace}
  IN  IF keep = {} THEN <<>>
      ELSE SubSeq(s, CHOOSE k \in keep : \A m \in keep : k <= m,
                     CHOOSE k \in keep : \A m \in keep : k >= m)

\* bytes.decode(errors="ignore")
decode(bytes) ==
  SelectSeq(bytes, LAMBDA b : b # InvalidByte)

RECURSIVE splitlines(_)
\* str.splitlines() for the line ends \n, \r and \r\n
splitlines(s) ==
  IF s = <<>> THEN <<>>
  ELSE LET ends == {k \in 1..Len(s) : s[k] \in {"\n", "\r"}}
       IN  IF ends = {} THEN <<s>>
           ELSE LET k == CHOOSE e \in ends : \A m \in ends : e <= m
                    skip == IF s[k] = "\r" /\ k < Len(s) /\ s[k + 1] = "\n"
                              THEN 2 ELSE 1
                IN  <<SubSeq(s, 1, k - 1)>>
                      \o splitlines(SubSeq(s, k + skip, Len(s)))

RECURSIVE replace(_, _, _)
\* str.replace(old, new) for a non-empty old
replace(s, old, new) ==
  IF s = <<>> THEN <<>>
  ELSE IF MatchAt(s, old, 1)
    THEN new \o replace(SubSeq(s, Len(old) + 1, Len(s)), old, new)
    ELSE <<Head(s)>> \o replace(Tail(s), old, new)

(***************************************************************************)
(* Literals of the source.                                                 *)
(***************************************************************************)
PatNoiseExit ==
  <<"P","r","o","c","e","s","s"," ","c","o","m","p","l","e","t","e","d"," ",
    "w","i","t","h"," ","e","x","i","t"," ","c","o","d","e">>

PatNoiseJob ==
  <<"J","o","b"," ","d","e","f","i","n","e","d"," ","a","t",":">>

PatErrMarker ==
  <<"#","#","[","e","r","r","o","r","]">>

PatERROR ==
  <<"E","R","R","O","R">>

PatException ==
  <<"E","x","c","e","p","t","i","o","n">>

PatZeroDiv ==
  <<"Z","e","r","o","D","i","v","i","s","i","o","n","E","r","r","o","r">>

PatModule ==
  <<"M","o","d","u","l","e","N","o","t","F","o","u","n","d","E","r","r","o",
    "r">>

PatNoFile ==
  <<"N","o"," ","s","u","c","h"," ","f","i","l","e">>

TxtExt ==
  <<".","t","x","t">>

RuleTrigger ==
  <<"m","o","d","u","l","e","n","o","t","f","o","u","n","d","e","r","r","o",
    "r">>

LabelCause ==
  <<"C","a","u","s","e",":">>

LabelFix ==
  <<"F","i","x",":">>

RuleFixText ==
  <<"C","a","u","s","e",":"," ","A"," ","r","e","q","u","i","r","e","d"," ",
    "P","y","t","h","o","n"," ","d","e","p","e","n","d","e","n","c","y"," ",
    "i","s"," ","m","i","s","s","i","n","g",".","\n","F","i","x",":"," ",
    "A","d","d"," ","t","h","e"," ","m","i","s","s","i","n","g"," ","p","a",
    "c","k","a","g","e"," ","t","o"," ","r","e","q","u","i","r","e","m","e",
    "n","t","s",".","t","x","t"," ","a","n","d"," ","e","n","s","u","r","e",
    " ","d","e","p","e","n","d","e","n","c","i","e","s"," ","a","r","e"," ",
    "i","n","s","t","a","l","l","e","d"," ","i","n"," ","t","h","e"," ","w",
    "o","r","k","f","l","o","w",".">>

FallbackText ==
  <<"C","a","u","s","e",":"," ","T","h","e"," ","w","o","r","k","f","l","o",
    "w"," ","f","a","i","l","e","d"," ","d","u","e"," ","t","o"," ","a"," ",
    "c","o","n","f","i","g","u","r","a","t","i","o","n"," ","o","r"," ","d",
    "e","p","e","n","d","e","n","c","y"," ","i","s","s","u","e",".","\n",
    "F","i","x",":"," ","R","e","v","i","e","w"," ","t","h","e"," ","e","r",
    "r","o","r"," ","m","e","s","s","a","g","e"," ","a","n","d"," ","u","p",
    "d","a","t","e"," ","t","h","e"," ","w","o","r","k","f","l","o","w"," ",
    "o","r"," ","p","r","o","j","e","c","t"," ","f","i","l","e","s"," ","a",
    "c","c","o","r","d","i","n","g","l","y",".">>

NoisePatterns ==
  {PatNoiseExit, PatNoiseJob}

ErrorPatterns ==
  {PatErrMarker, PatERROR, PatException, PatZeroDiv, PatModule, PatNoFile}

(***************************************************************************)
(* extract_all_errors                                                      *)
(***************************************************************************)
is_noise_never(line) ==
  FALSE

\* the noise test of the line loop
is_noise(line) ==
  search_ignorecase(NoisePatterns, line)

\* the error test of the line loop
is_error(line) ==
  search_ignorecase(ErrorPatterns, line)

\* ^\d{4}-\d{2}-\d{2}T  matches at the start of the line
DatePrefix(s) ==
  /\ Len(s) >= 11
  /\ \A k \in {1, 2, 3, 4, 6, 7, 9, 10} : s[k] \in Digits
  /\ s[5] = "-"
  /\ s[8] = "-"
  /\ s[11] = "T"

\* number of whitespace characters of s from position k on (greedy \s*)
SpaceRun(s, k) ==
  LET stops == {m \in k..Len(s) : s[m] \notin Whitespace}
  IN  IF stops = {} THEN Len(s) - k + 1
      ELSE (CHOOSE m \in stops : \A n \in stops : m <= n) - k

\* positions z of a "Z" at which  .*?Z\s*##\[error\]  can end the lazy .*?
StampEnds(s) ==
  {z \in 12..Len(s) :
     /\ s[z] = "Z"
     /\ \A m \in 12..(z - 1) : s[m] # "\n"
     /\ MatchAt(s, PatErrMarker, z + 1 + SpaceRun(s, z + 1))}

\* re.sub(r"^\d{4}-\d{2}-\d{2}T.*?Z\s*##\[error\]\s*", "", line).strip()
normalize(line) ==
  IF DatePrefix(line) /\ StampEnds(line) # {}
    THEN LET z == CHOOSE e \in StampEnds(line) :
                    \A m \in StampEnds(line) : e <= m
             a == z + 1 + SpaceRun(line, z + 1) + Len(PatErrMarker)
             b == a + SpaceRun(line, a)
         IN  strip(SubSeq(line, b, Len(line)))
    ELSE strip(line)

dedup_key_case_sensitive(normalized) ==
  normalized

\* the key under which a normalized line is looked up in seen_errors
dedup_key(normalized) ==
  lower(normalized)

RECURSIVE scan_lines(_, _, _, _)
\* the loop over the lines of one archive entry; acc is (seen_errors, errors)
scan_lines(name, lines, idx, acc) ==
  IF idx > Len(lines) THEN acc
  ELSE
    LET line == lines[idx]
        normalized == normalize(line)
    IN  IF is_noise(line)
          THEN scan_lines(name, lines, idx + 1, acc)
        ELSE IF ~is_error(line)
          THEN scan_lines(name, lines, idx + 1, acc)
        ELSE IF dedup_key(normalized) \in acc.seen_errors
          THEN scan_lines(name, lines, idx + 1, acc)
        ELSE scan_lines(name, lines, idx + 1,
               [seen_errors |-> acc.seen_errors \cup {dedup_key(normalized)},
                errors |-> Append(acc.errors,
                             [job_step |-> replace(name, TxtExt, <<>>),
                              line_no |-> idx,
                              error_line |-> normalized])])

RECURSIVE scan_entries(_, _, _)
\* the loop over z.namelist()
scan_entries(entries, e, acc) ==
  IF e > Len(entries) THEN acc
  ELSE scan_entries(entries, e + 1,
         scan_lines(entries[e].name,
                    splitlines(decode(entries[e].data)), 1, acc))

\* zip_bytes is [kind, entries]; kind "zip" is a readable archive, any other
\* kind makes zipfile.ZipFile raise BadZipFile.
extract_all_errors(zip_bytes) ==
  IF zip_bytes.kind # "zip"
    THEN [raised |-> "BadZipFile", errors |-> <<>>, seen_errors |-> {}]
    ELSE LET acc == scan_entries(zip_bytes.entries, 1,
                                 [seen_errors |-> {}, errors |-> <<>>])
         IN  [raised |-> "", errors |-> acc.errors,
              seen_errors |-> acc.seen_errors]

(***************************************************************************)
(* Archives the extractor is applied to.                                   *)
(***************************************************************************)
LineStamped ==
  <<"2","0","2","4","-","0","5","-","0","1","T","1","2",":","0","0",":","0",
    "0","Z"," ","#","#","[","e","r","r","o","r","]"," ","E","r","r","o","r",
    " ","x">>

LineCaseDup ==
  <<"e","r","r","o","r",InvalidByte," ","X"," ">>

LineNoisy ==
  <<"#","#","[","e","r","r","o","r","]","P","r","o","c","e","s","s"," ","c",
    "o","m","p","l","e","t","e","d"," ","w","i","t","h"," ","e","x","i","t",
    " ","c","o","d","e"," ","1">>

LineModule ==
  <<"M","o","d","u","l","e","N","o","t","F","o","u","n","d","E","r","r","o",
    "r",":"," ","m">>

LinePlain ==
  <<"a","l","l"," ","o","k">>

LineBoom ==
  <<"2","0","2","4","-","0","5","-","0","1","T","1","2",":","0","0",":","0",
    "0","Z"," ","#","#","[","e","r","r","o","r","]"," ","b","o","o","m">>

NameBuild ==
  <<"b","u","i","l","d",".","t","x","t">>

NameTest ==
  <<"1","_","t","e","s","t",".","t","x","t",".","t","x","t">>

SampleLines ==
  {LineStamped, LineCaseDup, LineNoisy, LineModule, LinePlain}

EntryNames ==
  {NameBuild, NameTest}

RECURSIVE JoinLines(_)
JoinLines(ls) ==
  IF ls = <<>> THEN <<>>
  ELSE IF Len(ls) = 1 THEN ls[1]
  ELSE ls[1] \o <<"\n">> \o JoinLines(Tail(ls))

SeqsUpTo(S, n) ==
  UNION {[1..m -> S] : m \in 0..n}

\* file contents of at most MaxLines lines
Contents ==
  {JoinLines(ls) : ls \in SeqsUpTo(SampleLines, MaxLines)}

\* archives: entries with distinct names, in any order
Archives ==
  {[kind |-> "zip", entries |-> es] :
     es \in {s \in SeqsUpTo([name : EntryNames, data : Contents],
                            Cardinality(EntryNames)) :
               \A a, b \in 1..Len(s) : a # b => s[a].name # s[b].name}}

(***************************************************************************)
(* rule_based_fix and ai_fix                                               *)
(***************************************************************************)
rule_based_fix_case_sensitive(error_line) ==
  IF Contains(error_line, RuleTrigger) THEN RuleFixText ELSE <<>>

\* None is modelled as the empty text: the only use of the result is the
\* truth test  if rule_fix:
rule_based_fix(error_line) ==
  LET error_lower == lower(error_line)
  IN  IF Contains(error_lower, RuleTrigger) THEN RuleFixText ELSE <<>>

\* the f-string of ai_fix: fixed head, the error line, fixed tail
prompt(error_line) ==
  <<"You are a senior DevOps engineer.\nExplain the root cause and fix for this CI failure.\n\n",
    error_line,
    "\n\nRespond exactly in this format:\nCause: <one sentence>\nFix: <one sentence>">>

\* dict.get(key): None (falsy, modelled as the empty text) for a missing key
dict_get(d, key) ==
  IF key \in DOMAIN d THEN d[key] ELSE <<>>

\* a or b
py_or(a, b) ==
  IF a # <<>> THEN a ELSE b

unexpected_output_both_missing(text) ==
  ~Contains(text, LabelCause) /\ ~Contains(text, LabelFix)

\* the test that sends ai_fix to its fallback text
unexpected_output(text) ==
  ~Contains(text, LabelCause) \/ ~Contains(text, LabelFix)

\* gen is the behaviour of llm(prompt, max_new_tokens=80): it raises, or
\* returns a list whose first element is the dict gen.item.
\* The result is [raised, value, prompts]: prompts are the calls made to llm.
ai_fix(error_line, gen) ==
  LET rule_fix == rule_based_fix(error_line)
  IN  IF rule_fix # <<>>
        THEN [raised |-> "", value |-> rule_fix, prompts |-> <<>>]
      ELSE IF gen.raises
        THEN [raised |-> "GeneratorError", value |-> <<>>,
              prompts |-> <<prompt(error_line)>>]
      ELSE LET text == strip(py_or(py_or(dict_get(gen.item, "generated_text"),
                                         dict_get(gen.item, "text")), <<>>))
           IN  [raised |-> "",
                value |-> IF unexpected_output(text) THEN FallbackText
                          ELSE text,
                prompts |-> <<prompt(error_line)>>]

(***************************************************************************)
(* Error texts and generator behaviours ai_fix is applied to.              *)
(***************************************************************************)
GenCause ==
  <<" ","C","a","u","s","e",":"," ","b","a","d"," ","p","i","n",".">>

GenFix ==
  <<"F","i","x",":"," ","b","u","m","p"," ","i","t",".","\n">>

GenLower ==
  <<"c","a","u","s","e",":"," ","f","i","x",":"," ">>

GenChat ==
  <<"I"," ","t","h","i","n","k">>

TextErrX ==
  <<"E","r","r","o","r"," ","x">>

TextModule ==
  <<"M","o","d","u","l","e","N","o","t","F","o","u","n","d","E","r","r","o",
    "r",":"," ","m">>

TextModuleLower ==
  <<"n","o"," ","m","o","d","u","l","e","n","o","t","f","o","u","n","d","e",
    "r","r","o","r">>

TextBoom ==
  <<"b","o","o","m">>

RECURSIVE Concat(_)
Concat(ss) ==
  IF ss = <<>> THEN <<>> ELSE Head(ss) \o Concat(Tail(ss))

GenChunks ==
  {GenCause, GenFix, GenLower, GenChat}

\* texts a generator can return: at most MaxGenChunks chunks
GenTexts ==
  {Concat(cs) : cs \in SeqsUpTo(GenChunks, MaxGenChunks)}

GenRaises ==
  [raises |-> TRUE, item |-> [generated_text |-> <<>>]]

GenBehaviours ==
  {GenRaises}
    \cup {[raises |-> FALSE, item |-> [generated_text |-> t]] : t \in GenTexts}
    \cup {[raises |-> FALSE, item |-> [text |-> t]] : t \in GenTexts}
    \cup {[raises |-> FALSE, item |-> [generated_text |-> a, text |-> b]] :
            a \in {<<>>, GenChat}, b \in GenTexts}

ErrorTexts ==
  {TextErrX, TextModule, TextModuleLower, TextBoom, <<>>}

(***************************************************************************)
(* Responses of the remote API and of the generator during monitor().      *)
(***************************************************************************)
WorkflowNames ==
  <<"ci", "deploy", "lint", "docs">>

\* the listings list_workflows can return: distinct workflows, any order
Listings ==
  {ws \in SeqsUpTo({[id |-> k, name |-> WorkflowNames[k]] :
                      k \in 1..MaxWorkflows}, MaxWorkflows) :
     \A a, b \in 1..Len(ws) : a # b => ws[a].id # ws[b].id}

Conclusions ==
  {"success", "failure", "cancelled"}

\* latest_run returns None when the request fails or there is no run
NoRun ==
  [present |-> FALSE, id |-> 0, conclusion |-> ""]

\* the latest run of a workflow has an id of its own
RunResponses(wf) ==
  {NoRun} \cup {[present |-> TRUE, id |-> 100 + wf.id, conclusion |-> c] :
                  c \in Conclusions}

NoBytes ==
  [kind |-> "none", entries |-> <<>>]

EmptyBytes ==
  [kind |-> "empty", entries |-> <<>>]

CorruptBytes ==
  [kind |-> "corrupt", entries |-> <<>>]

\* three distinct error lines and one duplicate, in one file
ArchEndToEnd ==
  [kind |-> "zip",
   entries |-> <<[name |-> NameBuild,
                  data |-> JoinLines(<<LineStamped, LineModule,
                                       LineCaseDup, LineBoom>>)]>>]

ArchNoFiles ==
  [kind |-> "zip", entries |-> <<>>]

ArchTwoFiles ==
  [kind |-> "zip",
   entries |-> <<[name |-> NameTest, data |-> JoinLines(<<LineNoisy>>)],
                 [name |-> NameBuild,
                  data |-> JoinLines(<<LineModule, LineStamped>>)]>>]

LogResponses ==
  {NoBytes, EmptyBytes, CorruptBytes, ArchEndToEnd, ArchNoFiles, ArchTwoFiles}

LlmOutcomes ==
  {GenRaises,
   [raises |-> FALSE, item |-> [generated_text |-> GenCause \o GenFix]],
   [raises |-> FALSE, item |-> [generated_text |-> GenChat]]}

\* if not logs:
not_logs(l) ==
  l.kind \in {"none", "empty"}

\* if run["conclusion"] == "success":
is_success(r) ==
  r.conclusion = "success"

is_failure_any_non_success(r) ==
  r.conclusion # "success"

\* if run["conclusion"] == "failure":
is_failure(r) ==
  r.conclusion = "failure"

annotate_zero_based(idx, err, fix) ==
  [error_number |-> idx - 1,
   job_step |-> err.job_step,
   line_no |-> err.line_no,
   error_line |-> err.error_line,
   suggestion |-> fix]

\* the dict appended to errors_info
annotate(idx, err, fix) ==
  [error_number |-> idx,
   job_step |-> err.job_step,
   line_no |-> err.line_no,
   error_line |-> err.error_line,
   suggestion |-> fix]

(***************************************************************************)
(* monitor()                                                               *)
(***************************************************************************)
Idle ==
  /\ workflows = <<>>
  /\ wi = 0
  /\ passed = 0
  /\ failed = 0
  /\ all_results = <<>>
  /\ run = NoRun
  /\ logs = NoBytes
  /\ errors = <<>>
  /\ errors_info = <<>>
  /\ exception = ""
  /\ calls = <<>>
  /\ summary = [printed |-> FALSE, total |-> 0, passed |-> 0, failed |-> 0,
                results |-> <<>>]

Init ==
  /\ pc = "start"
  /\ Idle
  /\ input = <<>>
  /\ output = <<>>

Call(op, arg, resp) ==
  [op |-> op, arg |-> arg, resp |-> resp]

\* workflows = self.list_workflows(); passed = 0; failed = 0; all_results = []
ListWorkflows ==
  /\ pc = "start"
  /\ \E ws \in Listings :
       /\ workflows' = ws
       /\ calls' = Append(calls, Call("ListWorkflows", <<>>, ws))
  /\ passed' = 0
  /\ failed' = 0
  /\ all_results' = <<>>
  /\ wi' = 0
  /\ pc' = "loop"
  /\ UNCHANGED <<run, logs, errors, errors_info, exception, summary,
                 input, output>>

\* one iteration head: run = self.latest_run(wf["id"]) and the branches on it
LatestRun ==
  /\ pc = "loop"
  /\ wi < Len(workflows)
  /\ wi' = wi + 1
  /\ LET wf == workflows[wi + 1]
     IN  \E r \in RunResponses(wf) :
           /\ run' = r
           /\ calls' = Append(calls, Call("LatestRun", wf.id, r))
           /\ IF ~r.present
                THEN /\ pc' = "loop"
                     /\ UNCHANGED <<passed, failed, errors_info>>
              ELSE IF is_success(r)
                THEN /\ passed' = passed + 1
                     /\ pc' = "loop"
                     /\ UNCHANGED <<failed, errors_info>>
              ELSE IF is_failure(r)
                THEN /\ failed' = failed + 1
                     /\ errors_info' = <<>>
                     /\ pc' = "download"
                     /\ UNCHANGED passed
              ELSE /\ pc' = "loop"
                   /\ UNCHANGED <<passed, failed, errors_info>>
  /\ UNCHANGED <<workflows, all_results, logs, errors, exception, summary,
                 input, output>>

DownloadLogs_retry ==
  /\ pc = "download"
  /\ \E l \in LogResponses :
       /\ logs' = l
       /\ calls' = IF not_logs(l)
                     THEN calls \o <<Call("FetchLogArchive", run.id, l),
                                     Call("FetchLogArchive", run.id, l)>>
                     ELSE Append(calls, Call("FetchLogArchive", run.id, l))
       /\ pc' = IF not_logs(l) THEN "loop" ELSE "extract"
  /\ UNCHANGED <<workflows, wi, passed, failed, all_results, run, errors,
                 errors_info, exception, summary, input, output>>

\* logs = self.download_logs(run["id"]); if not logs: continue
DownloadLogs ==
  /\ pc = "download"
  /\ \E l \in LogResponses :
       /\ logs' = l
       /\ calls' = Append(calls, Call("FetchLogArchive", run.id, l))
       /\ pc' = IF not_logs(l) THEN "loop" ELSE "extract"
  /\ UNCHANGED <<workflows, wi, passed, failed, all_results, run, errors,
                 errors_info, exception, summary, input, output>>

\* errors = self.extract_all_errors(logs)
ExtractErrors ==
  /\ pc = "extract"
  /\ LET r == extract_all_errors(logs)
     IN  IF r.raised # ""
           THEN /\ pc' = "raised"
                /\ exception' = r.raised
                /\ UNCHANGED errors
           ELSE /\ pc' = "advise"
                /\ errors' = r.errors
                /\ UNCHANGED exception
  /\ UNCHANGED <<workflows, wi, passed, failed, all_results, run, logs,
                 errors_info, calls, summary, input, output>>

\* one iteration of  for idx, err in enumerate(errors, start=1)
Advise ==
  /\ pc = "advise"
  /\ Len(errors_info) < Len(errors)
  /\ LET idx == Len(errors_info) + 1
         err == errors[idx]
     IN  \E gen \in LlmOutcomes :
           LET fix == ai_fix(err.error_line, gen)
           IN  /\ calls' = calls \o [k \in 1..Len(fix.prompts) |->
                             Call("GenerateSuggestion", fix.prompts[k], gen)]
               /\ IF fix.raised # ""
                    THEN /\ pc' = "raised"
                         /\ exception' = fix.raised
                         /\ UNCHANGED errors_info
                    ELSE /\ errors_info' = Append(errors_info,
                              annotate(idx, err, fix.value))
                         /\ UNCHANGED <<pc, exception>>
  /\ UNCHANGED <<workflows, wi, passed, failed, all_results, run, logs,
                 errors, summary, input, output>>

AppendResult_skip_empty ==
  /\ pc = "advise"
  /\ Len(errors_info) = Len(errors)
  /\ all_results' = IF errors_info = <<>> THEN all_results
                    ELSE Append(all_results,
                           [workflow_name |-> workflows[wi].name,
                            run_id |-> run.id,
                            errors |-> errors_info])
  /\ pc' = "loop"
  /\ UNCHANGED <<workflows, wi, passed, failed, run, logs, errors,
                 errors_info, exception, calls, summary, input, output>>

\* all_results.append({...}) after the loop over errors
AppendResult ==
  /\ pc = "advise"
  /\ Len(errors_info) = Len(errors)
  /\ all_results' = Append(all_results,
                      [workflow_name |-> workflows[wi].name,
                       run_id |-> run.id,
                       errors |-> errors_info])
  /\ pc' = "loop"
  /\ UNCHANGED <<workflows, wi, passed, failed, run, logs, errors,
                 errors_info, exception, calls, summary, input, output>>

\* the report and the summary printed after the loop over workflows
PrintSummary ==
  /\ pc = "loop"
  /\ wi = Len(workflows)
  /\ summary' = [printed |-> TRUE, total |-> Len(workflows),
                 passed |-> passed, failed |-> failed,
                 results |-> all_results]
  /\ pc' = "done"
  /\ UNCHANGED <<workflows, wi, passed, failed, all_results, run, logs,
                 errors, errors_info, exception, calls, input, output>>

Next ==
  \/ ListWorkflows
  \/ LatestRun
  \/ DownloadLogs
  \/ ExtractErrors
  \/ Advise
  \/ AppendResult
  \/ PrintSummary

Spec ==
  Init /\ [][Next]_vars

(***************************************************************************)
(* extract_all_errors applied to every archive of the bounded set.         *)
(***************************************************************************)
InitExtract ==
  /\ pc = "call"
  /\ Idle
  /\ input \in Archives \cup {CorruptBytes}
  /\ output = <<>>

ExtractCall ==
  /\ pc = "call"
  /\ output' = extract_all_errors(input)
  /\ pc' = "returned"
  /\ UNCHANGED <<workflows, wi, passed, failed, all_results, run, logs,
                 errors, errors_info, exception, calls, summary, input>>

NextExtract ==
  ExtractCall

SpecExtract ==
  InitExtract /\ [][NextExtract]_vars

(***************************************************************************)
(* ai_fix applied to every error text and generator behaviour.             *)
(***************************************************************************)
InitAdvise ==
  /\ pc = "call"
  /\ Idle
  /\ input \in [error_line : ErrorTexts, gen : GenBehaviours]
  /\ output = <<>>

AdviseCall ==
  /\ pc = "call"
  /\ output' = ai_fix(input.error_line, input.gen)
  /\ pc' = "returned"
  /\ UNCHANGED <<workflows, wi, passed, failed, all_results, run, logs,
                 errors, errors_info, exception, calls, summary, input>>

NextAdvise ==
  AdviseCall

SpecAdvise ==
  InitAdvise /\ [][NextAdvise]_vars

(***************************************************************************)
(* Properties of extract_all_errors (checked under SpecExtract).           *)
(***************************************************************************)
\* the decoded lines of every entry of an archive
LinesOf(arch) ==
  [e \in 1..Len(arch.entries) |-> splitlines(decode(arch.entries[e].data))]

\* positions <<entry, line number>> of all lines
Positions(ls) ==
  UNION {{<<e, l>> : l \in 1..Len(ls[e])} : e \in 1..Len(ls)}

\* the line is noise
Noisy(line) ==
  search_ignorecase(NoisePatterns, line)

\* candidate lines: not noise, and matching an error-signal pattern
Candidates(ls) ==
  {p \in Positions(ls) :
     /\ ~Noisy(ls[p[1]][p[2]])
     /\ search_ignorecase(ErrorPatterns, ls[p[1]][p[2]])}

\* archive-entry order, then line order
Before(p, q) ==
  p[1] < q[1] \/ (p[1] = q[1] /\ p[2] < q[2])

\* occ carries the source name and line number of position p
EmittedFrom(arch, occ, p) ==
  /\ occ.job_step = replace(arch.entries[p[1]].name, TxtExt, <<>>)
  /\ occ.line_no = p[2]

\* C5: within one extraction call no two emitted occurrences have normalized
\* texts that are equal ignoring case, and of every group of candidate lines
\* with the same case-insensitive normalized text exactly the first one, in
\* archive-entry then line order, is emitted, with its own source name and
\* line number.
C5_DedupFirstWins ==
  (pc = "returned" /\ input.kind = "zip") =>
    LET out == output.errors
        ls == LinesOf(input)
        cands == Candidates(ls)
        norm == [p \in cands |-> normalize(ls[p[1]][p[2]])]
        key == [p \in cands |-> lower(norm[p])]
        firsts == {p \in cands :
                     \A q \in cands : key[q] = key[p] => ~Before(q, p)}
        src == [a \in 1..Len(out) |->
                  {p \in firsts : /\ EmittedFrom(input, out[a], p)
                                  /\ out[a].error_line = norm[p]}]
    IN  /\ output.raised = ""
        /\ \A a, b \in 1..Len(out) :
             a # b => lower(out[a].error_line) # lower(out[b].error_line)
        /\ Len(out) = Cardinality(firsts)
        /\ \A p \in firsts : \E a \in 1..Len(out) : p \in src[a]
        /\ \A a, b \in 1..Len(out) :
             a < b => \A p \in src[a] : \A q \in src[b] : Before(p, q)

\* a later line, in another file, repeats an earlier error in another case
C5_Witness ==
  /\ pc = "returned"
  /\ input.kind = "zip"
  /\ LET ls == LinesOf(input)
     IN  \E p, q \in Candidates(ls) :
           /\ p[1] < q[1]
           /\ normalize(ls[p[1]][p[2]]) # normalize(ls[q[1]][q[2]])
           /\ lower(normalize(ls[p[1]][p[2]]))
                = lower(normalize(ls[q[1]][q[2]]))
  /\ Len(output.errors) >= 2

\* C6: a line matching a noise pattern is discarded even when it also
\* matches an error pattern: it yields no occurrence and its text does not
\* enter seen_errors (seen_errors holds the keys of the candidates only).
C6_NoisePrecedence ==
  (pc = "returned" /\ input.kind = "zip") =>
    LET ls == LinesOf(input)
    IN  /\ \A p \in Positions(ls) :
             Noisy(ls[p[1]][p[2]]) =>
               \A a \in 1..Len(output.errors) :
                 ~EmittedFrom(input, output.errors[a], p)
        /\ output.seen_errors
             = {lower(normalize(ls[p[1]][p[2]])) : p \in Candidates(ls)}

\* an archive with a line that is both noise and error, next to a real error
C6_Witness ==
  /\ pc = "returned"
  /\ input.kind = "zip"
  /\ LET ls == LinesOf(input)
     IN  \E p \in Positions(ls) :
           /\ Noisy(ls[p[1]][p[2]])
           /\ search_ignorecase(ErrorPatterns, ls[p[1]][p[2]])
  /\ Len(output.errors) >= 1

(***************************************************************************)
(* Properties of ai_fix (checked under SpecAdvise).                        *)
(***************************************************************************)
HasBothLabels(text) ==
  Contains(text, LabelCause) /\ Contains(text, LabelFix)

RuleApplies(error_line) ==
  Contains(lower(error_line), RuleTrigger)

\* the text the generator returned: generated_text, else text, else nothing
ReturnedText(gen) ==
  IF "generated_text" \in DOMAIN gen.item /\ gen.item["generated_text"] # <<>>
    THEN gen.item["generated_text"]
  ELSE IF "text" \in DOMAIN gen.item
    THEN gen.item["text"]
  ELSE <<>>

AllSpace(s) ==
  \A k \in 1..Len(s) : s[k] \in Whitespace

\* t is s without its leading and trailing whitespace
IsTrimOf(t, s) ==
  /\ t = <<>> \/ (t[1] \notin Whitespace /\ t[Len(t)] \notin Whitespace)
  /\ \E a \in 0..Len(s) :
       /\ a + Len(t) <= Len(s)
       /\ AllSpace(SubSeq(s, 1, a))
       /\ SubSeq(s, a + 1, a + Len(t)) = t
       /\ AllSpace(SubSeq(s, a + Len(t) + 1, Len(s)))

\* C4: ai_fix never fails, whatever the error text and the generator do
\* (the generator raising included), and always returns a text holding both
\* a cause and a fix.
C4_AdviseNeverFails ==
  pc = "returned" =>
    /\ output.raised = ""
    /\ HasBothLabels(output.value)

\* C7: for an error text containing "modulenotfounderror" in any case,
\* ai_fix returns the canned dependency fix and never calls the generator.
C7_RulePrecedence ==
  (pc = "returned" /\ RuleApplies(input.error_line)) =>
    /\ output.raised = ""
    /\ output.value = RuleFixText
    /\ output.prompts = <<>>

\* a trigger written in mixed case, with a generator that would have raised
C7_Witness ==
  /\ pc = "returned"
  /\ input.error_line = TextModule
  /\ input.gen.raises
  /\ output.value = RuleFixText

\* C8: without a rule match, a returned text lacking "Cause:" or "Fix:" (the
\* empty text included) gives exactly the generic fallback, and a text with
\* both labels is returned trimmed and otherwise unchanged.
C8_FallbackGuarantee ==
  (pc = "returned" /\ ~RuleApplies(input.error_line) /\ ~input.gen.raises) =>
    LET raw == ReturnedText(input.gen)
    IN  /\ output.raised = ""
        /\ output.prompts = <<prompt(input.error_line)>>
        /\ IF HasBothLabels(raw)
             THEN IsTrimOf(output.value, raw)
             ELSE output.value = FallbackText

\* a text with both labels and surrounding whitespace comes back trimmed
C8_Witness ==
  /\ pc = "returned"
  /\ ~RuleApplies(input.error_line)
  /\ ~input.gen.raises
  /\ ReturnedText(input.gen) = GenCause \o GenFix
  /\ output.value # ReturnedText(input.gen)
  /\ output.value # FallbackText

(***************************************************************************)
(* Properties of monitor() (checked under Spec).                           *)
(***************************************************************************)
\* the LatestRun calls made so far, one per workflow reached by the loop
RunCalls ==
  SelectSeq(calls, LAMBDA c : c.op = "LatestRun")

CountRuns(conclusion) ==
  Cardinality({k \in 1..Len(RunCalls) :
                 /\ RunCalls[k].resp.present
                 /\ RunCalls[k].resp.conclusion = conclusion})

\* C1: passed counts the workflows whose latest run exists and concluded
\* "success", failed those whose latest run exists and concluded "failure"
\* (with or without logs); no run and any other conclusion count in neither;
\* the printed total is the length of the listing; passed + failed never
\* exceeds it.
C1_CounterConservation ==
  /\ passed = CountRuns("success")
  /\ failed = CountRuns("failure")
  /\ passed + failed <= Len(workflows)
  /\ pc = "done" =>
       /\ Len(RunCalls) = Len(workflows)
       /\ summary.total = Len(workflows)
       /\ summary.passed = passed
       /\ summary.failed = failed

\* a finished pass with one passed workflow and one failed without logs
C1_Witness ==
  /\ pc = "done"
  /\ passed = 1
  /\ failed = 1
  /\ all_results = <<>>

\* the workflows the loop has finished with
Finished ==
  IF pc \in {"loop", "done"} THEN wi ELSE wi - 1

\* the download for run id rid returned bytes
DownloadedBytes(rid) ==
  \E k \in 1..Len(calls) :
    /\ calls[k].op = "FetchLogArchive"
    /\ calls[k].arg = rid
    /\ calls[k].resp.kind \notin {"none", "empty"}

RECURSIVE ExpectedReports(_, _)
\* name and run id of the workflows k..n whose latest run failed and whose
\* log download returned bytes, in listing order
ExpectedReports(k, n) ==
  IF k > n THEN <<>>
  ELSE LET r == RunCalls[k].resp
       IN  (IF r.present /\ r.conclusion = "failure" /\ DownloadedBytes(r.id)
              THEN <<[workflow_name |-> workflows[k].name, run_id |-> r.id]>>
              ELSE <<>>)
             \o ExpectedReports(k + 1, n)

ResultsMatchListing ==
  /\ [k \in 1..Len(all_results) |->
        [workflow_name |-> all_results[k].workflow_name,
         run_id |-> all_results[k].run_id]] = ExpectedReports(1, Finished)
  /\ pc = "done" => summary.results = all_results

ResultsOnlyAppended ==
  /\ Len(all_results) <= Len(all_results')
  /\ SubSeq(all_results', 1, Len(all_results)) = all_results

\* C2: the results hold exactly one entry for each workflow whose latest run
\* failed and whose log download returned bytes, none for any other workflow,
\* in listing order, and the sequence only grows by appending.
C2_ResultsExactlyFailedWithLogs ==
  []ResultsMatchListing /\ [][ResultsOnlyAppended]_vars

\* a finished pass: one failure with a report, one failure without logs
C2_Witness ==
  /\ pc = "done"
  /\ failed = 2
  /\ Len(all_results) = 1
  /\ all_results[1].workflow_name = workflows[2].name

\* C3: a corrupt log archive of a failing run is not fatal: the workflow
\* stays counted as failed, gets no result, and the pass is not aborted.
C3_CorruptArchiveNotFatal ==
  \A k \in 1..Len(calls) :
    (calls[k].op = "FetchLogArchive" /\ calls[k].resp.kind = "corrupt") =>
      /\ pc # "raised"
      /\ failed >= 1
      /\ \A a \in 1..Len(all_results) : all_results[a].run_id # calls[k].arg

\* the occurrences the extractor returns for each possible download
Extracted ==
  [a \in LogResponses |-> extract_all_errors(a).errors]

\* the archive downloaded for run id rid
ArchiveOf(rid) ==
  calls[CHOOSE k \in 1..Len(calls) :
          calls[k].op = "FetchLogArchive" /\ calls[k].arg = rid].resp

\* C9: in every result the errors are the extractor's occurrences in its
\* order, numbered 1, 2, ..., n without gap or repeat.
C9_SequentialErrorNumbers ==
  \A a \in 1..Len(all_results) :
    LET got == all_results[a].errors
        occ == Extracted[ArchiveOf(all_results[a].run_id)]
    IN  /\ Len(got) = Len(occ)
        /\ \A j \in 1..Len(got) :
             /\ got[j].error_number = j
             /\ got[j].job_step = occ[j].job_step
             /\ got[j].line_no = occ[j].line_no
             /\ got[j].error_line = occ[j].error_line

\* the log with three distinct error lines and one duplicate: 3 errors
C9_Witness ==
  /\ pc = "done"
  /\ \E a \in 1..Len(all_results) :
       /\ ArchiveOf(all_results[a].run_id) = ArchEndToEnd
       /\ Len(all_results[a].errors) = 3
       /\ all_results[a].errors[3].error_line = TextBoom

\* indexes of the error line of prompt p among the occurrences occ
ErrorIndex(occ, p) ==
  {j \in 1..Len(occ) : occ[j].error_line = p[2]}

\* C10: ListWorkflows is called once, first; LatestRun once per workflow in
\* listing order; FetchLogArchive at most once per workflow, directly after
\* a LatestRun that returned a failed run, for that run; GenerateSuggestion
\* only in the block that follows a download that returned bytes, at most
\* once per extracted error and in error order.
C10_CallProtocol ==
  /\ \A k \in 1..Len(calls) : (calls[k].op = "ListWorkflows") <=> (k = 1)
  /\ Len(RunCalls) <= Len(workflows)
  /\ pc = "done" => Len(RunCalls) = Len(workflows)
  /\ [k \in 1..Len(RunCalls) |-> RunCalls[k].arg]
       = [k \in 1..Len(RunCalls) |-> workflows[k].id]
  /\ \A k \in 1..Len(calls) :
       calls[k].op = "FetchLogArchive" =>
         /\ k > 1
         /\ calls[k - 1].op = "LatestRun"
         /\ calls[k - 1].resp.present
         /\ calls[k - 1].resp.conclusion = "failure"
         /\ calls[k].arg = calls[k - 1].resp.id
  /\ \A k \in 1..Len(calls) :
       calls[k].op = "GenerateSuggestion" =>
         /\ k > 1
         /\ calls[k - 1].op \in {"FetchLogArchive", "GenerateSuggestion"}
         /\ LET f == CHOOSE m \in 1..k :
                       /\ calls[m].op = "FetchLogArchive"
                       /\ \A n \in (m + 1)..k :
                            calls[n].op = "GenerateSuggestion"
                arch == calls[f].resp
                occ == Extracted[arch]
                here == ErrorIndex(occ, calls[k].arg)
            IN  /\ arch.kind \notin {"none", "empty"}
                /\ here # {}
                /\ k - 1 > f =>
                     \A i \in ErrorIndex(occ, calls[k - 1].arg) :
                       \A j \in here : i < j

\* a finished pass over two workflows with a download and two suggestions
C10_Witness ==
  /\ pc = "done"
  /\ Len(RunCalls) = 2
  /\ \E k \in 2..Len(calls) :
       /\ calls[k].op = "GenerateSuggestion"
       /\ calls[k - 1].op = "GenerateSuggestion"
  /\ \E k \in 1..Len(calls) :
       /\ calls[k].op = "FetchLogArchive"
       /\ calls[k].resp.kind = "none"

====
